---------------------------- MODULE Spec2Model ----------------------------
(***************************************************************************)
(* A model of the recipe-app backend: the FastAPI handlers of              *)
(* core/app/main.py and the provider adapter of                            *)
(* core/services/gemini_service.py.                                        *)
(*                                                                         *)
(* Representation.                                                         *)
(*  - A Python str (and a provider's text reply) is a sequence of chunks,  *)
(*    each chunk a TLA+ string: FENCE is three backticks, "json" is one    *)
(*    chunk, WS is a run of whitespace, QUOTE a double quote, and so on.   *)
(*  - bytes are sequences of chunks as well.                               *)
(*  - A parsed JSON value is a record with one field naming its type:      *)
(*    [str |-> s], [num |-> tenths], [arr |-> <<v..>>],                    *)
(*    [obj |-> <<[k |-> key, v |-> value]..>>], [lit |-> "null"].          *)
(*  - A float is counted in tenths (0.8 is 8); a Python int is an Int.     *)
(*  - The process starts from one of its two scripts, core/run.py or       *)
(*    core/app/main.py, and then serves one request at a time.             *)
(***************************************************************************)
EXTENDS Integers, Sequences, FiniteSets, TLC

\* settings: the Settings object of utils/config.py
\* process: the script about to run ("run.py", "main.py"), then "serving",
\*          "exited" (sys.exit(1)) or "crashed" (an exception at import)
\* req, calls, resp: the request being served, the provider calls made for
\*          it and its response
VARIABLES settings, process, req, calls, resp

vars == <<settings, process, req, calls, resp>>

-----------------------------------------------------------------------------
(* Chunks with a meaning to the code.                                      *)

FENCE == "BT3"
JSONWORD == "json"
WS == " "
QUOTE == "\""

(* Bounds of the model.                                                    *)
MaxReplyRecipes == 6
MaxHistory == 7

-----------------------------------------------------------------------------
(* str methods used by the code.                                           *)

RECURSIVE LStrip(_)
LStrip(s) == IF s # <<>> /\ Head(s) = WS THEN LStrip(Tail(s)) ELSE s

RECURSIVE RStrip(_)
RStrip(s) ==
    IF s # <<>> /\ s[Len(s)] = WS THEN RStrip(SubSeq(s, 1, Len(s) - 1)) ELSE s

\* str.strip()
Strip(s) == RStrip(LStrip(s))

\* str.startswith(FENCE + 'json')
StartsWithJsonFence(s) == Len(s) >= 2 /\ s[1] = FENCE /\ s[2] = JSONWORD

\* str.replace(FENCE + 'json', ''): every occurrence, left to right
RECURSIVE ReplaceJsonFence(_)
ReplaceJsonFence(s) ==
    LET at == {i \in 1..(Len(s) - 1) : s[i] = FENCE /\ s[i + 1] = JSONWORD}
    IN  IF at = {} THEN s
        ELSE LET first == CHOOSE i \in at : \A k \in at : i <= k
             IN  SubSeq(s, 1, first - 1)
                 \o ReplaceJsonFence(SubSeq(s, first + 2, Len(s)))

\* str.replace(FENCE, '')
ReplaceFence(s) == SelectSeq(s, LAMBDA c : c # FENCE)

\* str.title() on the chunks the model uses; other chunks are already titled
TitleTable ==
    ("tomato" :> "Tomato") @@ ("onion" :> "Onion") @@ ("garlic" :> "Garlic")
    @@ ("mixed vegetables" :> "Mixed Vegetables") @@ ("json" :> "Json")
    @@ ("TOFU" :> "Tofu") @@ ("red pepper" :> "Red Pepper")

Title(s) ==
    [i \in DOMAIN s |-> IF s[i] \in DOMAIN TitleTable THEN TitleTable[s[i]] ELSE s[i]]

\* ", ".join(xs) and "\n".join(xs) for a list of str
RECURSIVE Join(_, _)
Join(sep, xs) ==
    IF xs = <<>> THEN <<>>
    ELSE IF Len(xs) = 1 THEN xs[1]
    ELSE xs[1] \o <<sep>> \o Join(sep, Tail(xs))

-----------------------------------------------------------------------------
(* json.loads: a recursive-descent parser over the chunks of a text.       *)

\* the number chunks of the model and their values in tenths
NumValue ==
    ("0.8" :> 8) @@ ("0.5" :> 5) @@ ("1.5" :> 15) @@ ("-0.2" :> -2)
    @@ ("25" :> 250) @@ ("4" :> 40) @@ ("0" :> 0) @@ ("1" :> 10)

ParseFail == [ok |-> FALSE, val |-> [lit |-> "null"], pos |-> 0]

RECURSIVE SkipWs(_, _)
SkipWs(t, i) == IF i <= Len(t) /\ t[i] = WS THEN SkipWs(t, i + 1) ELSE i

RECURSIVE FindQuote(_, _)
FindQuote(t, i) ==
    IF i > Len(t) THEN 0 ELSE IF t[i] = QUOTE THEN i ELSE FindQuote(t, i + 1)

ParseString(t, i) ==
    LET j == FindQuote(t, i + 1)
    IN  IF j = 0 THEN ParseFail
        ELSE [ok |-> TRUE, val |-> [str |-> SubSeq(t, i + 1, j - 1)], pos |-> j + 1]

RECURSIVE ParseValue(_, _)
RECURSIVE ParseElems(_, _, _)
RECURSIVE ParseMembers(_, _, _)

ParseValue(t, i0) ==
    LET i == SkipWs(t, i0)
    IN  IF i > Len(t) THEN ParseFail
        ELSE IF t[i] = QUOTE THEN ParseString(t, i)
        ELSE IF t[i] \in DOMAIN NumValue
             THEN [ok |-> TRUE, val |-> [num |-> NumValue[t[i]]], pos |-> i + 1]
        ELSE IF t[i] = "null"
             THEN [ok |-> TRUE, val |-> [lit |-> "null"], pos |-> i + 1]
        ELSE IF t[i] = "["
             THEN LET j == SkipWs(t, i + 1)
                  IN  IF j <= Len(t) /\ t[j] = "]"
                      THEN [ok |-> TRUE, val |-> [arr |-> <<>>], pos |-> j + 1]
                      ELSE ParseElems(t, i + 1, <<>>)
        ELSE IF t[i] = "{"
             THEN LET j == SkipWs(t, i + 1)
                  IN  IF j <= Len(t) /\ t[j] = "}"
                      THEN [ok |-> TRUE, val |-> [obj |-> <<>>], pos |-> j + 1]
                      ELSE ParseMembers(t, i + 1, <<>>)
        ELSE ParseFail

ParseElems(t, i, acc) ==
    LET r == ParseValue(t, i)
    IN  IF ~r.ok THEN ParseFail
        ELSE LET j == SkipWs(t, r.pos)
                 acc2 == Append(acc, r.val)
             IN  IF j > Len(t) THEN ParseFail
                 ELSE IF t[j] = "," THEN ParseElems(t, j + 1, acc2)
                 ELSE IF t[j] = "]"
                      THEN [ok |-> TRUE, val |-> [arr |-> acc2], pos |-> j + 1]
                 ELSE ParseFail

ParseMembers(t, i0, acc) ==
    LET i == SkipWs(t, i0)
    IN  IF i > Len(t) \/ t[i] # QUOTE THEN ParseFail
        ELSE LET key == ParseString(t, i)
             IN  IF ~key.ok THEN ParseFail
                 ELSE LET c == SkipWs(t, key.pos)
                      IN  IF c > Len(t) \/ t[c] # ":" THEN ParseFail
                          ELSE LET r == ParseValue(t, c + 1)
                               IN  IF ~r.ok THEN ParseFail
                                   ELSE LET j == SkipWs(t, r.pos)
                                            acc2 == Append(acc, [k |-> key.val.str, v |-> r.val])
                                        IN  IF j > Len(t) THEN ParseFail
                                            ELSE IF t[j] = "," THEN ParseMembers(t, j + 1, acc2)
                                            ELSE IF t[j] = "}"
                                                 THEN [ok |-> TRUE, val |-> [obj |-> acc2], pos |-> j + 1]
                                            ELSE ParseFail

\* json.loads(text): one value, then nothing but whitespace
Loads(t) ==
    LET r == ParseValue(t, 1)
    IN  IF r.ok /\ SkipWs(t, r.pos) > Len(t)
        THEN [ok |-> TRUE, val |-> r.val]
        ELSE [ok |-> FALSE, val |-> [lit |-> "null"]]

IsStr(v) == "str" \in DOMAIN v
IsNum(v) == "num" \in DOMAIN v
IsArr(v) == "arr" \in DOMAIN v
IsObj(v) == "obj" \in DOMAIN v
IsListOfStr(v) == IsArr(v) /\ \A i \in DOMAIN v.arr : IsStr(v.arr[i])
StrList(v) == [i \in DOMAIN v.arr |-> v.arr[i].str]

\* dict membership and lookup on a parsed object (a repeated key: the last wins)
HasKey(o, key) == \E i \in DOMAIN o.obj : o.obj[i].k = key
Lookup(o, key) ==
    LET i == CHOOSE n \in DOMAIN o.obj :
                 o.obj[n].k = key /\ \A m \in DOMAIN o.obj : o.obj[m].k = key => m <= n
    IN  o.obj[i].v
\* dict.get(key, default)
DictGet(o, key, default) == IF HasKey(o, key) THEN Lookup(o, key) ELSE default

\* a value written out as JSON text
NumChunk(n) == CHOOSE c \in DOMAIN NumValue : NumValue[c] = n

RECURSIVE Dumps(_)
RECURSIVE DumpsElems(_)
RECURSIVE DumpsMembers(_)
Dumps(v) ==
    IF IsStr(v) THEN <<QUOTE>> \o v.str \o <<QUOTE>>
    ELSE IF IsNum(v) THEN <<NumChunk(v.num)>>
    ELSE IF IsArr(v) THEN <<"[">> \o DumpsElems(v.arr) \o <<"]">>
    ELSE IF IsObj(v) THEN <<"{">> \o DumpsMembers(v.obj) \o <<"}">>
    ELSE <<"null">>
DumpsElems(xs) ==
    IF xs = <<>> THEN <<>>
    ELSE IF Len(xs) = 1 THEN Dumps(xs[1])
    ELSE Dumps(xs[1]) \o <<",", WS>> \o DumpsElems(Tail(xs))
DumpsMembers(ms) ==
    IF ms = <<>> THEN <<>>
    ELSE LET m == <<QUOTE>> \o ms[1].k \o <<QUOTE, ":">> \o Dumps(ms[1].v)
         IN  IF Len(ms) = 1 THEN m ELSE m \o <<",">> \o DumpsMembers(Tail(ms))

JStr(s) == [str |-> s]
JList(xs) == [arr |-> [i \in DOMAIN xs |-> JStr(xs[i])]]
Member(key, v) == [k |-> <<key>>, v |-> v]

-----------------------------------------------------------------------------
(* base64 and PIL, as far as the handlers depend on them.                  *)

\* one base64 quantum per chunk of bytes
B64Table ==
    ("iVBO" :> "PNG") @@ ("/9j/" :> "JPEG") @@ ("UkdCQQ==" :> "RGBA")
    @@ ("UkdC" :> "RGB") @@ ("TA==" :> "L") @@ ("cGl4" :> "pixels")
    @@ ("bm90" :> "not an image") @@ ("UklG" :> "RIFF") @@ ("cGNt" :> "pcm")

\* a character outside the base64 alphabet, and a lone character that leaves
\* the input with incorrect padding
B64Junk == "!"
B64Odd == "A"

\* base64.b64decode(s): characters outside the alphabet are discarded, then
\* incorrect padding raises binascii.Error
b64decode(s) ==
    LET kept == SelectSeq(s, LAMBDA c : c # B64Junk)
    IN  IF \E i \in DOMAIN kept : kept[i] \notin DOMAIN B64Table
        THEN [ok |-> FALSE, val |-> <<>>, msg |-> "Incorrect padding"]
        ELSE [ok |-> TRUE, val |-> [i \in DOMAIN kept |-> B64Table[kept[i]]], msg |-> ""]

\* base64.b64encode(b).decode('utf-8')
b64encode(b) ==
    [i \in DOMAIN b |-> CHOOSE g \in DOMAIN B64Table : B64Table[g] = b[i]]

ImageFormats == {"PNG", "JPEG"}
ImageModes == {"RGBA", "RGB", "L"}

\* Image.open(BytesIO(b)): reads the header only; the pixel data is decoded
\* when the image is first converted or saved
ImageOpen(b) ==
    IF Len(b) >= 2 /\ b[1] \in ImageFormats /\ b[2] \in ImageModes
    THEN [ok |-> TRUE, mode |-> b[2], complete |-> Len(b) >= 3 /\ b[3] = "pixels"]
    ELSE [ok |-> FALSE, mode |-> "", complete |-> FALSE]

\* lines 41-54: every mode ends as an RGB image saved as JPEG
SaveAsJpeg(img) == <<"JPEG", "RGB", "pixels">>

-----------------------------------------------------------------------------
(* GeminiService.identify_ingredients                                      *)

\* an outcome of client.models.generate_content
Raise == [kind |-> "raise", text |-> <<>>]
NoCandidates == [kind |-> "nocandidates", text |-> <<>>]
Reply(t) == [kind |-> "text", text |-> t]

FallbackIdentification ==
    [ingredients |-> << <<"mixed vegetables">> >>, confidence |-> 1]

\* lines 75-77
CleanIdentifyReply(text) ==
    LET response_text == Strip(text)
    IN  IF StartsWithJsonFence(response_text)
        THEN Strip(ReplaceFence(ReplaceJsonFence(response_text)))
        ELSE response_text

\* lines 75-84: the part of the try block after the call; ok is FALSE when it
\* raises (no candidates, json.loads fails, result has no .get, validation fails)
IdentifyFailed == [ok |-> FALSE, val |-> FallbackIdentification]

\* lines 79-84: p is what json.loads made of the text
IdentifyFromParsed(p) ==
    IF ~p.ok \/ ~IsObj(p.val) THEN IdentifyFailed
    ELSE LET ing == DictGet(p.val, <<"ingredients">>, [arr |-> <<>>])
             conf == DictGet(p.val, <<"confidence">>, [num |-> 0])
         IN  IF IsListOfStr(ing) /\ IsNum(conf)
             THEN [ok |-> TRUE,
                   val |-> [ingredients |-> StrList(ing), confidence |-> conf.num]]
             ELSE IdentifyFailed

IdentifyFromReply(o) ==
    IF o.kind # "text" THEN IdentifyFailed
    ELSE IdentifyFromParsed(Loads(CleanIdentifyReply(o.text)))

\* a slip in lines 39-91: the try block ends with the call, so a reply that
\* cannot be used raises to the caller
GeminiService_identify_ingredients_narrow_try(image_bytes, o) ==
    LET image == ImageOpen(image_bytes)
        parsed == IdentifyFromReply(o)
    IN  IF ~image.ok
        THEN [raised |-> TRUE, msg |-> "cannot identify image file",
              val |-> FallbackIdentification, calls |-> <<>>]
        ELSE IF ~image.complete
        THEN [raised |-> FALSE, msg |-> "",
              val |-> FallbackIdentification, calls |-> <<>>]
        ELSE [raised |-> o.kind # "raise" /\ ~parsed.ok, msg |-> "Expecting value",
              val |-> parsed.val,
              calls |-> <<[api |-> "gemini.identify",
                           mime_type |-> "image/jpeg",
                           data |-> b64encode(SaveAsJpeg(image)),
                           outcome |-> o]>>]

\* The whole method. raised: the exception left the method (Image.open is
\* outside the try block); calls: the provider calls it made.
GeminiService_identify_ingredients(image_bytes, o) ==
    LET image == ImageOpen(image_bytes)
    IN  IF ~image.ok
        THEN [raised |-> TRUE, msg |-> "cannot identify image file",
              val |-> FallbackIdentification, calls |-> <<>>]
        ELSE IF ~image.complete
        THEN [raised |-> FALSE, msg |-> "",
              val |-> FallbackIdentification, calls |-> <<>>]
        ELSE [raised |-> FALSE, msg |-> "",
              val |-> IdentifyFromReply(o).val,
              calls |-> <<[api |-> "gemini.identify",
                           mime_type |-> "image/jpeg",
                           data |-> b64encode(SaveAsJpeg(image)),
                           outcome |-> o]>>]

-----------------------------------------------------------------------------
(* models/recipe.py: Recipe, and GeminiService.generate_recipes            *)

NL == "LF"

Difficulties == { <<"Easy">>, <<"Medium">>, <<"Hard">> }

\* a Python list or None in an Optional[List[str]] field
PyList(xs) == [list |-> xs]
PyNone == [none |-> TRUE]

IsInt(v) == IsNum(v) /\ v.num % 10 = 0

\* Recipe(**recipe_data) succeeds: recipe_data is a mapping with every required
\* field of its type. (Values that one pydantic version coerces and another
\* rejects, such as a number for a str field, are rejected here; the inputs of
\* the model hold none.)
ValidRecipeData(o) ==
    /\ IsObj(o)
    /\ \A f \in { <<"id">>, <<"title">>, <<"summary">> } :
           HasKey(o, f) /\ IsStr(Lookup(o, f))
    /\ \A f \in { <<"ingredients">>, <<"instructions">> } :
           HasKey(o, f) /\ IsListOfStr(Lookup(o, f))
    /\ \A f \in { <<"cookingTime">>, <<"servings">> } :
           HasKey(o, f) /\ IsInt(Lookup(o, f))
    /\ HasKey(o, <<"difficulty">>)
    /\ IsStr(Lookup(o, <<"difficulty">>))
    /\ Lookup(o, <<"difficulty">>).str \in Difficulties
    /\ HasKey(o, <<"tags">>) =>
           \/ IsListOfStr(Lookup(o, <<"tags">>))
           \/ Lookup(o, <<"tags">>) = [lit |-> "null"]

Recipe(o) ==
    [id |-> Lookup(o, <<"id">>).str,
     title |-> Lookup(o, <<"title">>).str,
     summary |-> Lookup(o, <<"summary">>).str,
     ingredients |-> StrList(Lookup(o, <<"ingredients">>)),
     instructions |-> StrList(Lookup(o, <<"instructions">>)),
     cookingTime |-> Lookup(o, <<"cookingTime">>).num \div 10,
     servings |-> Lookup(o, <<"servings">>).num \div 10,
     difficulty |-> Lookup(o, <<"difficulty">>).str,
     tags |-> IF ~HasKey(o, <<"tags">>) THEN PyList(<<>>)
              ELSE IF IsArr(Lookup(o, <<"tags">>))
                   THEN PyList(StrList(Lookup(o, <<"tags">>)))
                   ELSE PyNone]

\* line 160
MainIngredient(ingredients) ==
    IF ingredients # <<>> THEN ingredients[1] ELSE <<"mixed vegetables">>

\* a slip in line 161: the last ingredient instead of the second
SecondIngredient_last(ingredients) ==
    IF Len(ingredients) > 1 THEN ingredients[Len(ingredients)] ELSE <<"onion">>

\* line 161
SecondIngredient(ingredients) ==
    IF Len(ingredients) > 1 THEN ingredients[2] ELSE <<"onion">>

\* lines 158-219 (the degree sign and the accent of the source are left out)
_get_fallback_recipes(ingredients) ==
    LET main_ingredient == MainIngredient(ingredients)
        second_ingredient == SecondIngredient(ingredients)
    IN  << [id |-> <<"fallback_1">>,
            title |-> <<"Simple ">> \o Title(main_ingredient) \o <<" Stir Fry">>,
            summary |-> <<"Quick and easy stir-fry with available ingredients">>,
            ingredients |-> << <<"2 cups ">> \o main_ingredient, <<"1 onion diced">>,
                               <<"2 tbsp oil">>, <<"salt and pepper to taste">> >>,
            instructions |-> << <<"Heat oil in large pan">>, <<"Add onion, cook 2 mins">>,
                                <<"Add ">> \o main_ingredient, <<"Stir fry 5-7 minutes">>,
                                <<"Season and serve">> >>,
            cookingTime |-> 15, servings |-> 4, difficulty |-> <<"Easy">>,
            tags |-> PyList(<< <<"Quick">>, <<"Healthy">> >>)],
           [id |-> <<"fallback_2">>,
            title |-> <<"Roasted ">> \o Title(main_ingredient) \o <<" and ">>
                      \o Title(second_ingredient),
            summary |-> <<"Oven-roasted vegetables with herbs">>,
            ingredients |-> << <<"3 cups ">> \o main_ingredient \o <<" chopped">>,
                               <<"2 cups ">> \o second_ingredient \o <<" chopped">>,
                               <<"3 tbsp olive oil">>, <<"1 tsp dried herbs">>,
                               <<"salt and pepper">> >>,
            instructions |-> << <<"Preheat oven to 400F">>,
                                <<"Toss vegetables with oil and herbs">>,
                                <<"Season with salt and pepper">>,
                                <<"Roast 25-30 minutes">>, <<"Serve hot">> >>,
            cookingTime |-> 35, servings |-> 4, difficulty |-> <<"Easy">>,
            tags |-> PyList(<< <<"Roasted">>, <<"Healthy">> >>)],
           [id |-> <<"fallback_3">>,
            title |-> Title(main_ingredient) \o <<" Soup">>,
            summary |-> <<"Comforting homemade soup">>,
            ingredients |-> << <<"3 cups ">> \o main_ingredient \o <<" chopped">>,
                               <<"4 cups vegetable broth">>, <<"1 onion diced">>,
                               <<"2 cloves garlic minced">>, <<"1 tbsp oil">> >>,
            instructions |-> << <<"Heat oil in pot">>, <<"Saute onion and garlic 3 mins">>,
                                <<"Add ">> \o main_ingredient,
                                <<"Add broth, bring to boil">>, <<"Simmer 20 minutes">>,
                                <<"Season to taste">> >>,
            cookingTime |-> 30, servings |-> 4, difficulty |-> <<"Medium">>,
            tags |-> PyList(<< <<"Soup">>, <<"Comfort">> >>)],
           [id |-> <<"fallback_4">>,
            title |-> <<"Grilled ">> \o Title(main_ingredient) \o <<" Salad">>,
            summary |-> <<"Fresh salad with grilled vegetables">>,
            ingredients |-> << <<"2 cups ">> \o main_ingredient, <<"4 cups mixed greens">>,
                               <<"1/4 cup olive oil">>, <<"2 tbsp balsamic vinegar">>,
                               <<"salt and pepper">> >>,
            instructions |-> << <<"Grill or saute vegetables until tender">>,
                                <<"Let cool slightly">>, <<"Mix greens in large bowl">>,
                                <<"Top with grilled vegetables">>,
                                <<"Drizzle with oil and vinegar">> >>,
            cookingTime |-> 20, servings |-> 4, difficulty |-> <<"Medium">>,
            tags |-> PyList(<< <<"Salad">>, <<"Grilled">> >>)],
           [id |-> <<"fallback_5">>,
            title |-> <<"Stuffed ">> \o Title(main_ingredient) \o <<" Casserole">>,
            summary |-> <<"Hearty baked casserole dish">>,
            ingredients |-> << <<"4 cups ">> \o main_ingredient \o <<" chopped">>,
                               <<"1 cup rice or quinoa">>, <<"2 cups broth">>,
                               <<"1 cup cheese shredded">>, <<"1 onion diced">> >>,
            instructions |-> << <<"Preheat oven to 375F">>,
                                <<"Cook rice according to package directions">>,
                                <<"Mix all ingredients except cheese">>,
                                <<"Transfer to baking dish">>, <<"Top with cheese">>,
                                <<"Bake 25-30 minutes">> >>,
            cookingTime |-> 45, servings |-> 6, difficulty |-> <<"Hard">>,
            tags |-> PyList(<< <<"Casserole">>, <<"Baked">> >>)] >>

\* lines 100-123: the prompt, with the exclusion block when titles are given
RecipePrompt(ingredients, exclude_titles) ==
    LET ingredients_text == Join(", ", ingredients)
        titles_list == Join(NL, [i \in DOMAIN exclude_titles |->
                                     <<"- ">> \o exclude_titles[i]])
        exclusion_text ==
            IF exclude_titles # <<>>
            THEN <<NL, "IMPORTANT: Do NOT generate any of these recipes (or similar variations):", NL>>
                 \o titles_list \o <<NL>>
            ELSE <<>>
    IN  <<"Generate exactly 5 recipes using: ">> \o ingredients_text \o <<NL>>
        \o exclusion_text
        \o <<NL, "Requirements: ... Return valid JSON array with exactly 5 recipes.">>

\* lines 137-141
CleanRecipesReply(text) ==
    LET response_text == Strip(text)
    IN  IF StartsWithJsonFence(response_text)
        THEN Strip(ReplaceFence(ReplaceJsonFence(response_text)))
        ELSE response_text

\* lines 137-151: the part of the try block after the call; ok is FALSE when it
\* raises. Iterating a dict or a str yields its keys or characters, which
\* Recipe(**x) rejects, so only an empty one passes the loop.
RecipesFailed == [ok |-> FALSE, val |-> <<>>]

\* lines 146-151: the loop over recipes_data
RecipesFromData(recipes_data) ==
    IF IsArr(recipes_data)
    THEN IF \A i \in DOMAIN recipes_data.arr : ValidRecipeData(recipes_data.arr[i])
         THEN [ok |-> TRUE,
               val |-> [i \in DOMAIN recipes_data.arr |-> Recipe(recipes_data.arr[i])]]
         ELSE RecipesFailed
    ELSE IF \/ IsObj(recipes_data) /\ recipes_data.obj = <<>>
            \/ IsStr(recipes_data) /\ recipes_data.str = <<>>
         THEN [ok |-> TRUE, val |-> <<>>]
         ELSE RecipesFailed

\* line 143: p is what json.loads made of the text
RecipesFromParsed(p) == IF ~p.ok THEN RecipesFailed ELSE RecipesFromData(p.val)

RecipesFromReply(o) ==
    IF o.kind # "text" THEN RecipesFailed
    ELSE RecipesFromParsed(Loads(CleanRecipesReply(o.text)))

\* lines 93-156: the whole method; it makes one call and never raises for a
\* list of str
\* lines 153-156: the parsed recipes, or the fallback ones when the try block
\* raised
RecipesOrFallback(parsed, ingredients) ==
    IF parsed.ok THEN parsed.val ELSE _get_fallback_recipes(ingredients)

\* a slip in lines 125-156: a reply that cannot be used is asked for again
GeminiService_generate_recipes_retry(ingredients, exclude_titles, o) ==
    [val |-> RecipesOrFallback(RecipesFromReply(o), ingredients),
     calls |-> IF RecipesFromReply(o).ok
               THEN <<[api |-> "gemini.generate",
                       prompt |-> RecipePrompt(ingredients, exclude_titles),
                       outcome |-> o]>>
               ELSE <<[api |-> "gemini.generate",
                       prompt |-> RecipePrompt(ingredients, exclude_titles),
                       outcome |-> o],
                      [api |-> "gemini.generate",
                       prompt |-> RecipePrompt(ingredients, exclude_titles),
                       outcome |-> o]>>]

GeminiService_generate_recipes(ingredients, exclude_titles, o) ==
    [val |-> RecipesOrFallback(RecipesFromReply(o), ingredients),
     calls |-> <<[api |-> "gemini.generate",
                  prompt |-> RecipePrompt(ingredients, exclude_titles),
                  outcome |-> o]>>]

-----------------------------------------------------------------------------
(* GeminiService.cooking_assistant and GeminiService.speech_to_text        *)

\* the slice conversation_history[-6:]
HistoryWindow == 6

Apology == <<"Sorry, I had trouble understanding. Could you ask that again?">>

\* bool(v) of a value taken from a JSON body
Truthy(v) ==
    IF IsObj(v) THEN v.obj # <<>>
    ELSE IF IsArr(v) THEN v.arr # <<>>
    ELSE IF IsStr(v) THEN v.str # <<>>
    ELSE IF IsNum(v) THEN v.num # 0
    ELSE FALSE

\* f"{v}" of a value: a str is copied, anything else is written out
Format(v) == IF IsStr(v) THEN v.str ELSE Dumps(v)

\* s[-n:]
LastN(s, n) == IF Len(s) <= n THEN s ELSE SubSeq(s, Len(s) - n + 1, Len(s))

\* for x in v: a number or None is not iterable; the model iterates lists only
Iterable(v) == IsArr(v)

\* lines 230-240 raise: recipe has no .get, a field is not iterable, or a turn
\* of the last six has no 'role' or no 'content'
PromptRaises(recipe, conversation_history) ==
    \/ ~IsObj(recipe)
    \/ ~Iterable(DictGet(recipe, <<"ingredients">>, [arr |-> <<>>]))
    \/ ~Iterable(DictGet(recipe, <<"instructions">>, [arr |-> <<>>]))
    \/ LET recent == LastN(conversation_history, HistoryWindow)
       IN  \E i \in DOMAIN recent :
               \/ ~IsObj(recent[i])
               \/ ~HasKey(recent[i], <<"role">>)
               \/ ~HasKey(recent[i], <<"content">>)

\* lines 230-262: the prompt
AssistantPrompt(recipe, conversation_history, user_message) ==
    LET ings == DictGet(recipe, <<"ingredients">>, [arr |-> <<>>]).arr
        steps == DictGet(recipe, <<"instructions">>, [arr |-> <<>>]).arr
        ingredients_text == Join(NL, [i \in DOMAIN ings |-> <<"- ">> \o Format(ings[i])])
        instructions_text ==
            Join(NL, [i \in DOMAIN steps |-> <<"step ">> \o Format(steps[i])])
        recent == LastN(conversation_history, HistoryWindow)
        Line(msg) ==
            <<IF Lookup(msg, <<"role">>) = JStr(<<"user">>) THEN "User" ELSE "Assistant",
              ": ">> \o Format(Lookup(msg, <<"content">>)) \o <<NL>>
        RECURSIVE Lines(_)
        Lines(ms) == IF ms = <<>> THEN <<>> ELSE Line(Head(ms)) \o Lines(Tail(ms))
    IN  <<"RECIPE: ">> \o Format(DictGet(recipe, <<"title">>, JStr(<<"Unknown Recipe">>)))
        \o <<NL, "INGREDIENTS:", NL>> \o ingredients_text
        \o <<NL, "INSTRUCTIONS:", NL>> \o instructions_text
        \o <<NL, "COOKING TIME: ">>
        \o Format(DictGet(recipe, <<"cookingTime">>, JStr(<<"Unknown">>)))
        \o <<" minutes", NL, "SERVINGS: ">>
        \o Format(DictGet(recipe, <<"servings">>, JStr(<<"Unknown">>)))
        \o <<NL, "CONVERSATION SO FAR:", NL>> \o Lines(recent)
        \o <<NL, "USER'S QUESTION: ">> \o user_message

\* lines 221-272: the whole method
GeminiService_cooking_assistant(recipe, conversation_history, user_message, o) ==
    IF PromptRaises(recipe, conversation_history)
    THEN [raised |-> TRUE, msg |-> "prompt", val |-> <<>>, calls |-> <<>>]
    ELSE [raised |-> FALSE, msg |-> "",
          val |-> IF o.kind = "text" THEN Strip(o.text) ELSE Apology,
          calls |-> <<[api |-> "gemini.chat",
                       prompt |-> AssistantPrompt(recipe, conversation_history,
                                                  user_message),
                       outcome |-> o]>>]

\* lines 274-317: the whole method. The outcome says where the Speech client
\* stops: at construction, in recognize, or with a response.
GeminiService_speech_to_text(audio_base64, mime_type, o) ==
    LET audio_bytes == b64decode(audio_base64)
    IN  IF o.kind = "client_error" \/ ~audio_bytes.ok
        THEN [val |-> <<>>, calls |-> <<>>]
        ELSE [val |-> IF o.kind = "transcript" THEN Strip(o.text) ELSE <<>>,
              calls |-> <<[api |-> "speech.recognize",
                           recognizer |-> <<"projects/", settings.GOOGLE_CLOUD_PROJECT,
                                            "/locations/global/recognizers/_">>,
                           content |-> audio_bytes.val,
                           outcome |-> o]>>]

-----------------------------------------------------------------------------
(* The inputs of the model: what a client may send and a provider answer.  *)

\* how a provider may dress the text of its reply
Padded(t) == <<WS>> \o t \o <<WS>>
JsonFenced(t) == <<FENCE, JSONWORD, WS>> \o t \o <<WS, FENCE>>
PlainFenced(t) == <<FENCE, WS>> \o t \o <<WS, FENCE>>
Chatty(t) == <<"Here is the JSON:", WS>> \o t
Dressings(t) == {t, Padded(t), JsonFenced(t), PlainFenced(t), Chatty(t)}

Tomato == <<"tomato">>
Onion == <<"onion">>
Garlic == <<"garlic">>
Tofu == <<"TOFU">>
MixedVegetables == <<"mixed vegetables">>

IngredientLists ==
    { <<>>, <<Tomato>>, <<Tomato, Onion>>, <<Tomato, Onion, Garlic>>,
      <<Tomato, Onion, Tofu>>, <<Onion, Tomato>>, <<Tofu>>,
      <<MixedVegetables>>, <<MixedVegetables, Onion>>, <<Tomato, Garlic>> }

IngredientsJson(list, conf) ==
    [obj |-> <<Member("ingredients", JList(list)), Member("confidence", [num |-> conf])>>]

IdentifiedLists == { <<>>, <<Tomato>>, <<Tomato, Onion>>, <<Tomato, Onion, Garlic>> }

IdentifyValues ==
    {IngredientsJson(l, 8) : l \in IdentifiedLists}
    \cup {IngredientsJson(<<Tomato>>, c) : c \in {15, -2, 0, 10}}
    \cup { [obj |-> <<Member("confidence", [num |-> 5])>>],
           [obj |-> <<Member("ingredients", JList(<<Garlic>>))>>],
           [obj |-> <<Member("ingredients", JList(<<Garlic>>)),
                      Member("confidence", [lit |-> "null"])>>],
           [obj |-> <<Member("ingredients", JStr(Tomato)),
                      Member("confidence", [num |-> 8])>>],
           [obj |-> <<Member("ingredients", JList(<<Onion>>)),
                      Member("ingredients", JList(<<Garlic>>)),
                      Member("confidence", [num |-> 5])>>],
           JList(<<Tomato, Onion>>),
           IngredientsJson(<< <<"red", FENCE, "pepper">> >>, 8) }

IdentifyTexts ==
    {Dumps(v) : v \in IdentifyValues}
    \cup Dressings(Dumps(IngredientsJson(<<Tomato, Onion>>, 8)))
    \cup { JsonFenced(Dumps(IngredientsJson(<<>>, 5))),
           JsonFenced(Dumps(IngredientsJson(<< <<"red", FENCE, "pepper">> >>, 8))) }
    \cup { <<>>, <<"I cannot help with that">>,
           <<"{", QUOTE, "ingredients", QUOTE, ":", "[">> }

IdentifyOutcomes == {Raise, NoCandidates} \cup {Reply(t) : t \in IdentifyTexts}

RecipeNumber == <<"1", "2", "3", "4", "5", "6", "7", "8">>

\* a recipe object as the prompt asks for it
RecipeJson(n) ==
    [obj |-> <<Member("id", JStr(<<"recipe_", RecipeNumber[n]>>)),
               Member("title", JStr(<<"Dish Name">>)),
               Member("summary", JStr(<<"Brief description">>)),
               Member("ingredients", JList(<< <<"2 cups tomatoes">> >>)),
               Member("instructions", JList(<< <<"Heat oil">> >>)),
               Member("cookingTime", [num |-> 250]),
               Member("servings", [num |-> 40]),
               Member("difficulty", JStr(<<"Easy">>)),
               Member("tags", JList(<< <<"quick">> >>))>>]

\* the same object without the member at position k
Without(o, k) ==
    [obj |-> SubSeq(o.obj, 1, k - 1) \o SubSeq(o.obj, k + 1, Len(o.obj))]
\* the same object with the value at position k replaced
With(o, k, v) == [obj |-> [o.obj EXCEPT ![k] = [k |-> o.obj[k].k, v |-> v]]]

RecipeArray(n) == [arr |-> [i \in 1..n |-> RecipeJson(i)]]

\* two elements, the second replaced by x
TwoWithSecond(x) == [arr |-> [RecipeArray(2).arr EXCEPT ![2] = x]]

GenerateValues ==
    {RecipeArray(n) : n \in 0..MaxReplyRecipes}
    \cup { TwoWithSecond(Without(RecipeJson(2), 2)),
           TwoWithSecond(With(RecipeJson(2), 8, JStr(<<"Impossible">>))),
           TwoWithSecond(With(RecipeJson(2), 6, JStr(<<"soon">>))),
           TwoWithSecond(JStr(<<"Dish Name">>)),
           TwoWithSecond(Without(RecipeJson(2), 9)),
           TwoWithSecond(With(RecipeJson(2), 9, [lit |-> "null"])),
           RecipeJson(2),
           [obj |-> <<>>],
           JStr(<<>>),
           [num |-> 40],
           [lit |-> "null"] }

GenerateTexts ==
    {Dumps(v) : v \in GenerateValues}
    \cup Dressings(Dumps(RecipeArray(1)))
    \cup { JsonFenced(Dumps(RecipeArray(5))) }
    \cup { <<>>, <<"I cannot help with that">>, <<"[", "{", QUOTE, "id", QUOTE>> }

GenerateOutcomes == {Raise, NoCandidates} \cup {Reply(t) : t \in GenerateTexts}

\* the exclude_recipe_ids form field, the exclude_recipe_ids list of a JSON
\* body and the exclude_titles list
ExcludeIdFields ==
    { <<>>, <<"recipe_1", ",", WS, "recipe_2", ",">> }
ExcludeIdLists == { <<>>, << <<"recipe_1">>, <<"recipe_2">> >> }
ExcludeTitleLists ==
    { <<>>, << <<"Tomato Soup">> >>, << <<"Tomato Soup">>, <<"Garlic Bread">> >> }

\* the recipe of a chat request; [lit |-> "null"] is a missing one
ChatRecipes ==
    { [lit |-> "null"], [obj |-> <<>>], RecipeJson(1), Without(RecipeJson(1), 4),
      JStr(<<"Dish Name">>), With(RecipeJson(1), 4, [num |-> 40]) }

Turn(role, content) == [obj |-> <<Member("role", JStr(<<role>>)),
                                  Member("content", JStr(<<content>>))>>]
\* n turns, the user and the assistant in alternation
Conversation(n) ==
    [i \in 1..n |-> IF i % 2 = 1 THEN Turn("user", "What is step one?")
                    ELSE Turn("assistant", "First, boil water.")]
\* the same with turn k replaced
ConversationWith(n, k, turn) == [Conversation(n) EXCEPT ![k] = turn]

BrokenTurns ==
    { [obj |-> <<Member("content", JStr(<<"hi">>))>>],
      [obj |-> <<Member("role", JStr(<<"user">>))>>],
      JStr(<<"hi">>) }

ChatHistories ==
    {Conversation(n) : n \in 0..MaxHistory}
    \cup {ConversationWith(MaxHistory, k, t) : k \in {1, MaxHistory}, t \in BrokenTurns}
    \cup {ConversationWith(1, 1, t) : t \in BrokenTurns}

UserMessages == { <<>>, <<"How much salt should I add?">> }

ChatTexts == { <<"Add a pinch.">>, <<WS, "Add a pinch.", WS>>, <<>> }
ChatOutcomes == {Raise, NoCandidates} \cup {Reply(t) : t \in ChatTexts}

\* the 'text' of a speech request
SpeechTexts == { <<>>, <<"Add a pinch.">> }

\* what the speech provider does: the connection fails, or it answers
NetworkError == [kind |-> "neterror", status |-> 0, body |-> <<>>]
HttpReply(status, body) == [kind |-> "http", status |-> status, body |-> body]
ProviderStatuses == {200, 201, 401, 422, 429, 500}
ProviderBodies == { <<>>, <<"ID3", "mp3 frames">>, <<"{detail: quota exceeded}">>,
                    <<"0xFF", "0xFB">> }
SpeechOutcomes ==
    {NetworkError} \cup {HttpReply(st, b) : st \in ProviderStatuses, b \in ProviderBodies}

\* the 'audio' and 'mime_type' of a transcription request
AudioFields == { <<>>, <<"UklG", "cGNt">>, <<"UklG", B64Odd>>, <<B64Junk>> }
MimeTypes == { <<"audio/wav">>, <<"audio/mpeg">> }
TranscribeOutcomes ==
    { [kind |-> k, text |-> <<>>] :
          k \in {"client_error", "raise", "noresults", "noalternatives"} }
    \cup { [kind |-> "transcript", text |-> t] :
               t \in { <<"add", WS, "salt">>, <<WS, "add", WS, "salt", WS>>, <<>> } }

\* the content type of an uploaded part; <<>> is a part without one
ContentTypes == { <<>>, <<"image/", "png">>, <<"text/", "plain">> }

ImageFiles ==
    { <<>>, <<"not an image">>, <<"PNG", "RGBA", "pixels">>,
      <<"JPEG", "RGB", "pixels">>, <<"JPEG", "RGB">> }

\* the 'image' field of a JSON body; <<>> is an empty or missing field
ImageFields ==
    {b64encode(f) : f \in ImageFiles}
    \cup { <<B64Junk>>, <<"iVBO", B64Odd>> }

-----------------------------------------------------------------------------
(* Responses.                                                              *)

\* raise HTTPException(status_code, detail)
HTTPException(status_code, detail) ==
    [status |-> status_code, kind |-> "error", detail |-> detail, body |-> <<>>]

\* a handler's return value, sent with status 200
Returned(kind, body) ==
    [status |-> 200, kind |-> kind, detail |-> <<>>, body |-> body]

\* a slip in the catch-all: the exception leaves the handler, and the framework
\* answers with its own 500, which carries no message
InternalServerError_escapes(msg) == HTTPException(500, <<"Internal Server Error">>)

\* the catch-all at the end of every handler
InternalServerError(msg) == HTTPException(500, <<"Internal server error: ", msg>>)

NoResponse == [status |-> 0, kind |-> "none", detail |-> <<>>, body |-> <<>>]

\* no request is being served: the server keeps nothing between requests
Idle == req.op = "none"

\* uvicorn.run is serving the app
Serving == process = "serving"

-----------------------------------------------------------------------------
(* POST /api/identify-ingredients and /api/identify-ingredients-json       *)

\* image.content_type and image.content_type.startswith('image/')
IsImageContentType(ct) == ct # <<>> /\ ct[1] = "image/"

\* lines 182-193 and 227-238: the result is returned; an exception of the
\* service ends in the catch-all
IdentificationResponse(result) ==
    IF result.raised
    THEN [resp |-> InternalServerError(result.msg), calls |-> result.calls]
    ELSE [resp |-> Returned("identification", result.val), calls |-> result.calls]

\* lines 206-210: base64.b64decode in its own try block
InvalidBase64(image_bytes) ==
    [resp |-> HTTPException(400, <<"Invalid base64 image data: ", image_bytes.msg>>),
     calls |-> <<>>]

identify_ingredients(content_type, file, o) ==
    IF ~IsImageContentType(content_type)
    THEN [resp |-> HTTPException(400, <<"File must be an image">>), calls |-> <<>>]
    ELSE IdentificationResponse(GeminiService_identify_ingredients(file, o))

identify_ingredients_json(image_data, o) ==
    IF image_data = <<>>
    THEN [resp |-> HTTPException(400, <<"No image data provided">>), calls |-> <<>>]
    ELSE LET image_bytes == b64decode(image_data)
         IN  IF ~image_bytes.ok THEN InvalidBase64(image_bytes)
             ELSE IdentificationResponse(
                      GeminiService_identify_ingredients(image_bytes.val, o))

PostIdentifyIngredients ==
    /\ Serving
    /\ Idle
    /\ \E ct \in ContentTypes, file \in ImageFiles, o \in IdentifyOutcomes :
           \E out \in {identify_ingredients(ct, file, o)} :
               /\ req' = [op |-> "identify_ingredients", content_type |-> ct,
                          image |-> file]
               /\ calls' = out.calls
               /\ resp' = out.resp
               /\ UNCHANGED <<settings, process>>

PostIdentifyIngredientsJson ==
    /\ Serving
    /\ Idle
    /\ \E image_data \in ImageFields, o \in IdentifyOutcomes :
           \E out \in {identify_ingredients_json(image_data, o)} :
               /\ req' = [op |-> "identify_ingredients_json", image |-> image_data]
               /\ calls' = out.calls
               /\ resp' = out.resp
               /\ UNCHANGED <<settings, process>>

-----------------------------------------------------------------------------
(* POST /api/generate-recipes, /api/generate-recipes-json and              *)
(* /api/regenerate-recipes                                                 *)

\* str.split(","): the pieces between commas
RECURSIVE SplitComma(_, _)
SplitComma(s, piece) ==
    IF s = <<>> THEN <<piece>>
    ELSE IF Head(s) = "," THEN <<piece>> \o SplitComma(Tail(s), <<>>)
    ELSE SplitComma(Tail(s), Append(piece, Head(s)))

\* lines 84-86: [id.strip() for id in s.split(",") if id.strip()]
ParseExcludeIds(exclude_recipe_ids) ==
    IF exclude_recipe_ids = <<>> THEN <<>>
    ELSE LET pieces == SplitComma(exclude_recipe_ids, <<>>)
             kept == SelectSeq(pieces, LAMBDA x : Strip(x) # <<>>)
         IN  [i \in DOMAIN kept |-> Strip(kept[i])]

RecipeGenerationResponse(recipes, identifiedIngredients) ==
    Returned("recipes", [recipes |-> recipes,
                         identifiedIngredients |-> identifiedIngredients])

\* lines 96-101 and 147-160: the recipes are returned with the ingredients
RecipesResponse(ingredient_result, recipes) ==
    [resp |-> RecipeGenerationResponse(recipes.val,
                                       ingredient_result.val.ingredients),
     calls |-> ingredient_result.calls \o recipes.calls]

\* a slip in lines 92-95: the parsed ids are handed on as exclude_titles
generate_recipes_identified_excluding(exclude_ids, ingredient_result, o2) ==
    IF ingredient_result.raised
    THEN [resp |-> InternalServerError(ingredient_result.msg),
          calls |-> ingredient_result.calls]
    ELSE RecipesResponse(ingredient_result,
                         GeminiService_generate_recipes(
                             ingredient_result.val.ingredients, exclude_ids, o2))

\* lines 88-101: from the identification on; exclude_ids is not used, and
\* exclude_titles is []
generate_recipes_identified(exclude_ids, ingredient_result, o2) ==
    IF ingredient_result.raised
    THEN [resp |-> InternalServerError(ingredient_result.msg),
          calls |-> ingredient_result.calls]
    ELSE RecipesResponse(ingredient_result,
                         GeminiService_generate_recipes(
                             ingredient_result.val.ingredients, <<>>, o2))

generate_recipes(content_type, file, exclude_recipe_ids, o1, o2) ==
    IF ~IsImageContentType(content_type)
    THEN [resp |-> HTTPException(400, <<"File must be an image">>), calls |-> <<>>]
    ELSE generate_recipes_identified(ParseExcludeIds(exclude_recipe_ids),
                                     GeminiService_identify_ingredients(file, o1), o2)

\* lines 134-160: from the identification on
generate_recipes_json_identified(ingredient_result, o2) ==
    IF ingredient_result.raised
    THEN [resp |-> InternalServerError(ingredient_result.msg),
          calls |-> ingredient_result.calls]
    ELSE IF ingredient_result.val.ingredients = <<>>
    THEN [resp |-> HTTPException(400,
              <<"No ingredients detected in the image. Please take a clearer photo of your ingredients.">>),
          calls |-> ingredient_result.calls]
    ELSE RecipesResponse(ingredient_result,
                         GeminiService_generate_recipes(
                             ingredient_result.val.ingredients, <<>>, o2))

generate_recipes_json(image_data, exclude_ids, o1, o2) ==
    IF image_data = <<>>
    THEN [resp |-> HTTPException(400, <<"No image data provided">>), calls |-> <<>>]
    ELSE LET image_bytes == b64decode(image_data)
         IN  IF ~image_bytes.ok THEN InvalidBase64(image_bytes)
             ELSE generate_recipes_json_identified(
                      GeminiService_identify_ingredients(image_bytes.val, o1), o2)

\* line 268
RegeneratedResponse(recipes) ==
    [resp |-> Returned("regenerated", [recipes |-> recipes.val]),
     calls |-> recipes.calls]

regenerate_recipes(ingredients, exclude_titles, o2) ==
    IF ingredients = <<>>
    THEN [resp |-> HTTPException(400, <<"No ingredients provided">>), calls |-> <<>>]
    ELSE RegeneratedResponse(
             GeminiService_generate_recipes(ingredients, exclude_titles, o2))

PostGenerateRecipes ==
    /\ Serving
    /\ Idle
    /\ \E ct \in ContentTypes, file \in ImageFiles, ids \in ExcludeIdFields,
          o1 \in IdentifyOutcomes, o2 \in GenerateOutcomes :
           \E out \in {generate_recipes(ct, file, ids, o1, o2)} :
               /\ req' = [op |-> "generate_recipes", content_type |-> ct,
                          image |-> file, exclude_recipe_ids |-> ids]
               /\ calls' = out.calls
               /\ resp' = out.resp
               /\ UNCHANGED <<settings, process>>

PostGenerateRecipesJson ==
    /\ Serving
    /\ Idle
    /\ \E image_data \in ImageFields, ids \in ExcludeIdLists,
          o1 \in IdentifyOutcomes, o2 \in GenerateOutcomes :
           \E out \in {generate_recipes_json(image_data, ids, o1, o2)} :
               /\ req' = [op |-> "generate_recipes_json", image |-> image_data,
                          exclude_recipe_ids |-> ids]
               /\ calls' = out.calls
               /\ resp' = out.resp
               /\ UNCHANGED <<settings, process>>

PostRegenerateRecipes ==
    /\ Serving
    /\ Idle
    /\ \E ingredients \in IngredientLists, titles \in ExcludeTitleLists,
          o2 \in GenerateOutcomes :
           \E out \in {regenerate_recipes(ingredients, titles, o2)} :
               /\ req' = [op |-> "regenerate_recipes", ingredients |-> ingredients,
                          exclude_titles |-> titles]
               /\ calls' = out.calls
               /\ resp' = out.resp
               /\ UNCHANGED <<settings, process>>

-----------------------------------------------------------------------------
(* POST /api/cooking-assistant, /api/text-to-speech, /api/speech-to-text   *)

\* lines 303-315: the utterance is returned; an exception of the service ends
\* in the catch-all
ChatResponse(response) ==
    IF response.raised
    THEN [resp |-> InternalServerError(response.msg), calls |-> response.calls]
    ELSE [resp |-> Returned("chat", [response |-> response.val]),
          calls |-> response.calls]

cooking_assistant(recipe, history, user_message, o) ==
    IF ~Truthy(recipe)
    THEN [resp |-> HTTPException(400, <<"Recipe is required">>), calls |-> <<>>]
    ELSE IF user_message = <<>>
    THEN [resp |-> HTTPException(400, <<"User message is required">>), calls |-> <<>>]
    ELSE ChatResponse(GeminiService_cooking_assistant(recipe, history,
                                                      user_message, o))

\* response.text: the body decoded as text; a byte that is no text is replaced
DecodeText(content) ==
    [i \in DOMAIN content |->
        IF content[i] \in {"0xFF", "0xFB"} THEN "U+FFFD" ELSE content[i]]

\* a slip in lines 333-337: the credential is not checked before the call
text_to_speech_no_key_check(text, o) ==
    IF text = <<>>
    THEN [resp |-> HTTPException(400, <<"Text is required">>), calls |-> <<>>]
    ELSE LET call == [api |-> "elevenlabs.text-to-speech",
                      url |-> <<"https://api.elevenlabs.io/v1/text-to-speech/",
                                settings.ELEVENLABS_VOICE_ID>>,
                      xi_api_key |-> settings.ELEVENLABS_API_KEY,
                      text |-> text,
                      model_id |-> "eleven_flash_v2_5",
                      outcome |-> o]
         IN  IF o.kind = "neterror"
             THEN [resp |-> InternalServerError("connection failed"), calls |-> <<call>>]
             ELSE IF o.status # 200
             THEN [resp |-> HTTPException(o.status, <<"ElevenLabs API error: ">>
                                                    \o DecodeText(o.body)),
                   calls |-> <<call>>]
             ELSE [resp |-> Returned("audio", [content |-> o.body,
                                               media_type |-> "audio/mpeg"]),
                   calls |-> <<call>>]

\* a slip in lines 376-380: without the clause that re-raises an HTTPException
\* the catch-all turns the provider's rejection into a 500
text_to_speech_catch_all(text, o) ==
    IF text = <<>>
    THEN [resp |-> InternalServerError("400: Text is required"), calls |-> <<>>]
    ELSE IF settings.ELEVENLABS_API_KEY = ""
    THEN [resp |-> InternalServerError("500: ElevenLabs API key not configured"),
          calls |-> <<>>]
    ELSE LET call == [api |-> "elevenlabs.text-to-speech",
                      url |-> <<"https://api.elevenlabs.io/v1/text-to-speech/",
                                settings.ELEVENLABS_VOICE_ID>>,
                      xi_api_key |-> settings.ELEVENLABS_API_KEY,
                      text |-> text,
                      model_id |-> "eleven_flash_v2_5",
                      outcome |-> o]
         IN  IF o.kind = "neterror"
             THEN [resp |-> InternalServerError("connection failed"), calls |-> <<call>>]
             ELSE IF o.status # 200
             THEN [resp |-> InternalServerError("ElevenLabs API error"),
                   calls |-> <<call>>]
             ELSE [resp |-> Returned("audio", [content |-> o.body,
                                               media_type |-> "audio/mpeg"]),
                   calls |-> <<call>>]

text_to_speech(text, o) ==
    IF text = <<>>
    THEN [resp |-> HTTPException(400, <<"Text is required">>), calls |-> <<>>]
    ELSE IF settings.ELEVENLABS_API_KEY = ""
    THEN [resp |-> HTTPException(500, <<"ElevenLabs API key not configured">>),
          calls |-> <<>>]
    ELSE LET call == [api |-> "elevenlabs.text-to-speech",
                      url |-> <<"https://api.elevenlabs.io/v1/text-to-speech/",
                                settings.ELEVENLABS_VOICE_ID>>,
                      xi_api_key |-> settings.ELEVENLABS_API_KEY,
                      text |-> text,
                      model_id |-> "eleven_flash_v2_5",
                      outcome |-> o]
         IN  IF o.kind = "neterror"
             THEN [resp |-> InternalServerError("connection failed"), calls |-> <<call>>]
             ELSE IF o.status # 200
             THEN [resp |-> HTTPException(o.status, <<"ElevenLabs API error: ">>
                                                    \o DecodeText(o.body)),
                   calls |-> <<call>>]
             ELSE [resp |-> Returned("audio", [content |-> o.body,
                                               media_type |-> "audio/mpeg"]),
                   calls |-> <<call>>]

\* a slip in lines 395-407: audio that is not base64 is rejected, as the image
\* handlers reject an image that is not
speech_to_text_rejects_undecodable(audio_data, mime_type, o) ==
    IF audio_data = <<>>
    THEN [resp |-> HTTPException(400, <<"Audio data is required">>), calls |-> <<>>]
    ELSE IF ~b64decode(audio_data).ok
    THEN [resp |-> HTTPException(400, <<"Invalid base64 audio data">>), calls |-> <<>>]
    ELSE LET transcript == GeminiService_speech_to_text(audio_data, mime_type, o)
         IN  [resp |-> Returned("transcript", [transcript |-> transcript.val]),
              calls |-> transcript.calls]

speech_to_text(audio_data, mime_type, o) ==
    IF audio_data = <<>>
    THEN [resp |-> HTTPException(400, <<"Audio data is required">>), calls |-> <<>>]
    ELSE LET transcript == GeminiService_speech_to_text(audio_data, mime_type, o)
         IN  [resp |-> Returned("transcript", [transcript |-> transcript.val]),
              calls |-> transcript.calls]

PostCookingAssistant ==
    /\ Serving
    /\ Idle
    /\ \E recipe \in ChatRecipes, history \in ChatHistories,
          user_message \in UserMessages, o \in ChatOutcomes :
           \E out \in {cooking_assistant(recipe, history, user_message, o)} :
               /\ req' = [op |-> "cooking_assistant", recipe |-> recipe,
                          conversation_history |-> history,
                          user_message |-> user_message]
               /\ calls' = out.calls
               /\ resp' = out.resp
               /\ UNCHANGED <<settings, process>>

PostTextToSpeech ==
    /\ Serving
    /\ Idle
    /\ \E text \in SpeechTexts, o \in SpeechOutcomes :
           \E out \in {text_to_speech(text, o)} :
               /\ req' = [op |-> "text_to_speech", text |-> text]
               /\ calls' = out.calls
               /\ resp' = out.resp
               /\ UNCHANGED <<settings, process>>

PostSpeechToText ==
    /\ Serving
    /\ Idle
    /\ \E audio_data \in AudioFields, mime_type \in MimeTypes,
          o \in TranscribeOutcomes :
           \E out \in {speech_to_text(audio_data, mime_type, o)} :
               /\ req' = [op |-> "speech_to_text", audio |-> audio_data,
                          mime_type |-> mime_type]
               /\ calls' = out.calls
               /\ resp' = out.resp
               /\ UNCHANGED <<settings, process>>

-----------------------------------------------------------------------------
\* utils/config.py: the values read from the environment at import; a key
\* that is not set is the empty string
Settings ==
    [GOOGLE_API_KEY : {"", "g-key"}, ELEVENLABS_API_KEY : {"", "xi-key"},
     ELEVENLABS_VOICE_ID : {"21m00Tcm4TlvDq8ikWAM"},
     GOOGLE_CLOUD_PROJECT : {"recipe-project"}]

\* Settings.validate(): TRUE when it returns, FALSE when it raises ValueError
Settings_validate(s) == s.GOOGLE_API_KEY # ""

\* the two scripts of the repository that start the server
EntryPoints == {"run.py", "main.py"}

\* GeminiService.__init__ at the import of app/main.py: genai.Client(api_key)
\* is library code. With a key it is built; with an empty key the library
\* looks for credentials in its own environment variables and raises when it
\* finds none, so both outcomes are possible.
ClientOutcomes(api_key) == IF api_key = "" THEN {"built", "raise"} ELSE {"built"}

Init ==
    /\ settings \in Settings
    /\ process \in EntryPoints
    /\ req = [op |-> "none"]
    /\ calls = <<>>
    /\ resp = NoResponse

\* the response is sent and everything built for the request is discarded
SendResponse ==
    /\ ~Idle
    /\ req' = [op |-> "none"]
    /\ calls' = <<>>
    /\ resp' = NoResponse
    /\ UNCHANGED <<settings, process>>

\* python run.py: validate, exit on failure, then uvicorn.run imports app.main
\* (which builds the GeminiService) and serves
RunPy ==
    /\ process = "run.py"
    /\ IF ~Settings_validate(settings)
       THEN process' = "exited"
       ELSE \E c \in ClientOutcomes(settings.GOOGLE_API_KEY) :
                process' = IF c = "built" THEN "serving" ELSE "crashed"
    /\ UNCHANGED <<settings, req, calls, resp>>

\* python app/main.py: the module body builds the GeminiService, then
\* uvicorn.run serves; validate is not called
MainPy ==
    /\ process = "main.py"
    /\ \E c \in ClientOutcomes(settings.GOOGLE_API_KEY) :
           process' = IF c = "built" THEN "serving" ELSE "crashed"
    /\ UNCHANGED <<settings, req, calls, resp>>

Next ==
    \/ RunPy
    \/ MainPy
    \/ PostTextToSpeech
    \/ PostSpeechToText
    \/ PostCookingAssistant
    \/ PostIdentifyIngredients
    \/ PostIdentifyIngredientsJson
    \/ PostRegenerateRecipes
    \/ PostGenerateRecipes
    \/ PostGenerateRecipesJson
    \/ SendResponse

Spec == Init /\ [][Next]_vars

-----------------------------------------------------------------------------
(* Properties.                                                             *)

Rejected == resp.status \in 400..499

\* bytes that decode as an image
DecodesAsImage(b) ==
    Len(b) = 3 /\ b[1] \in {"PNG", "JPEG"} /\ b[2] \in {"RGBA", "RGB", "L"}
    /\ b[3] = "pixels"

IdentifyOps == {"identify_ingredients", "identify_ingredients_json"}
ImageRecipeOps == {"generate_recipes", "generate_recipes_json"}

HasCall(api) == \E i \in DOMAIN calls : calls[i].api = api

\* C1: every response that carries recipes carries exactly 5 of them, whether
\* they were parsed from the provider's reply or are the fallback recipes.
C1_AlwaysFiveRecipes ==
    resp.kind \in {"recipes", "regenerated"} => Len(resp.body.recipes) = 5

\* the upload of an identify-ingredients request is no image or is empty
NonImageUpload ==
    \/ /\ req.op = "identify_ingredients"
       /\ \/ req.content_type = <<>>
          \/ req.content_type[1] # "image/"
          \/ ~DecodesAsImage(req.image)
    \/ /\ req.op = "identify_ingredients_json"
       /\ \/ req.image = <<>>
          \/ ~b64decode(req.image).ok
          \/ ~DecodesAsImage(b64decode(req.image).val)

\* C2: an identify-ingredients request whose upload is no image or is empty is
\* rejected with a 4xx, and no provider call was made for it.
C2_NonImageRejected == NonImageUpload => Rejected /\ calls = <<>>

\* the identification call failed: it raised, had no candidates, or its text
\* does not parse as JSON
IdentifyCallFailed(c) ==
    /\ c.api = "gemini.identify"
    /\ \/ c.outcome.kind \in {"raise", "nocandidates"}
       \/ c.outcome.kind = "text" /\ ~Loads(CleanIdentifyReply(c.outcome.text)).ok

\* C3: when the identification call fails, the request succeeds and the
\* identification is ["mixed vegetables"] with confidence 0.1.
C3_IdentifyFallback ==
    \A i \in DOMAIN calls :
        IdentifyCallFailed(calls[i]) =>
            /\ resp.status = 200
            /\ req.op \in IdentifyOps =>
                   /\ resp.kind = "identification"
                   /\ resp.body = [ingredients |-> << <<"mixed vegetables">> >>,
                                   confidence |-> 1]
            /\ req.op \in ImageRecipeOps =>
                   /\ resp.kind = "recipes"
                   /\ resp.body.identifiedIngredients = << <<"mixed vegetables">> >>

C3_Witness ==
    /\ req.op = "identify_ingredients"
    /\ calls # <<>>
    /\ calls[1].api = "gemini.identify"
    /\ calls[1].outcome.kind = "text"
    /\ ~Loads(CleanIdentifyReply(calls[1].outcome.text)).ok
    /\ resp.status = 200
    /\ resp.body.confidence = 1

\* the ingredient list handed to recipe generation is empty
EmptyIngredientsHanded ==
    \/ req.op = "regenerate_recipes" /\ req.ingredients = <<>>
    \/ /\ req.op \in ImageRecipeOps
       /\ calls # <<>>
       /\ calls[1].api = "gemini.identify"
       /\ IdentifyFromReply(calls[1].outcome).val.ingredients = <<>>

\* C4: on the three recipe endpoints an empty ingredient list is rejected with
\* a 4xx and the recipe-generation call is not made.
C4_EmptyIngredientsRejected ==
    EmptyIngredientsHanded => Rejected /\ ~HasCall("gemini.generate")

\* C5: a transcription request with a non-empty 'audio' field succeeds with a
\* transcript, and the transcript is empty when the audio cannot be decoded,
\* the provider cannot be reached or fails, or it returns no results.
C5_TranscriptionSoftFails ==
    (req.op = "speech_to_text" /\ req.audio # <<>>) =>
        /\ resp.status = 200
        /\ resp.kind = "transcript"
        /\ calls = <<>> => resp.body.transcript = <<>>
        /\ \A i \in DOMAIN calls :
               calls[i].outcome.kind # "transcript" => resp.body.transcript = <<>>

C5_Witness ==
    /\ req.op = "speech_to_text"
    /\ req.audio # <<>>
    /\ ~b64decode(req.audio).ok
    /\ resp.status = 200
    /\ resp.body.transcript = <<>>

\* C6: a speech request with text and no ELEVENLABS_API_KEY is answered with
\* the configuration error and no call to the speech provider; with empty text
\* the input error comes first, again without a call.
C6_ConfigErrorBeforeCall ==
    req.op = "text_to_speech" =>
        /\ req.text = <<>> =>
               /\ resp.status = 400
               /\ resp.detail = <<"Text is required">>
               /\ calls = <<>>
        /\ (req.text # <<>> /\ settings.ELEVENLABS_API_KEY = "") =>
               /\ resp.kind = "error"
               /\ resp.status = 500
               /\ resp.detail = <<"ElevenLabs API key not configured">>
               /\ calls = <<>>

C6_Witness ==
    /\ req.op = "text_to_speech"
    /\ req.text # <<>>
    /\ settings.ELEVENLABS_API_KEY = ""
    /\ resp.status = 500
    /\ calls = <<>>

\* the speech provider answered the request
SpeechProviderAnswered ==
    /\ req.op = "text_to_speech"
    /\ calls # <<>>
    /\ calls[1].outcome.kind = "http"

C8_ChatSoftFails ==
    (/\ req.op = "cooking_assistant"
     /\ IsObj(req.recipe)
     /\ req.recipe.obj # <<>>
     /\ req.user_message # <<>>) =>
        /\ resp.status = 200
        /\ resp.kind = "chat"
        /\ \/ resp.body.response =
                  <<"Sorry, I had trouble understanding. Could you ask that again?">>
           \/ \E i \in DOMAIN calls :
                  /\ calls[i].outcome.kind = "text"
                  /\ resp.body.response = Strip(calls[i].outcome.text)

\* the text of call c is payload j inside a fence, with or without "json"
FencedReply(c, j) ==
    /\ c.outcome.kind = "text"
    /\ c.outcome.text \in {JsonFenced(j), PlainFenced(j)}

\* C9: a reply that wraps a JSON payload in a code fence gives the result that
\* the payload alone gives, for identification and for recipe generation.
C9_FencedSameAsBare ==
    /\ req.op \in IdentifyOps =>
           \A v \in IdentifyValues : \A i \in DOMAIN calls :
               FencedReply(calls[i], Dumps(v)) =>
                   /\ resp.kind = "identification"
                   /\ resp.body = IdentifyFromReply(Reply(Dumps(v))).val
    /\ req.op = "regenerate_recipes" =>
           \A v \in GenerateValues : \A i \in DOMAIN calls :
               FencedReply(calls[i], Dumps(v)) =>
                   /\ resp.kind = "regenerated"
                   /\ resp.body.recipes =
                          GeminiService_generate_recipes(
                              req.ingredients, req.exclude_titles, Reply(Dumps(v))).val

\* the first two ingredients of a list, with the defaults for missing ones
FirstTwo(l) ==
    <<IF l # <<>> THEN l[1] ELSE <<"mixed vegetables">>,
      IF Len(l) > 1 THEN l[2] ELSE <<"onion">>>>

\* the response carries the fallback recipes for the list handed to generation
FellBack ==
    /\ resp.kind \in {"recipes", "regenerated"}
    /\ \E i \in DOMAIN calls :
           /\ calls[i].api = "gemini.generate"
           /\ ~RecipesFromReply(calls[i].outcome).ok

HandedIngredients ==
    IF req.op = "regenerate_recipes" THEN req.ingredients
    ELSE resp.body.identifiedIngredients

\* C10: the fallback recipes returned for a list are the fallback recipes of
\* every list with the same first two ingredients (defaults standing in for
\* missing ones), the same list included.
C10_FallbackOfFirstTwo ==
    FellBack =>
        \A l \in IngredientLists :
            FirstTwo(l) = FirstTwo(HandedIngredients) =>
                _get_fallback_recipes(l) = resp.body.recipes

C10_Witness ==
    /\ FellBack
    /\ Len(HandedIngredients) = 3
    /\ \E l \in IngredientLists :
           /\ l # HandedIngredients
           /\ FirstTwo(l) = FirstTwo(HandedIngredients)
           /\ _get_fallback_recipes(l) = resp.body.recipes

\* the providers an operation may call, in the order of its calls
ProvidersOf(op) ==
    IF op \in IdentifyOps THEN <<"gemini.identify">>
    ELSE IF op \in ImageRecipeOps THEN <<"gemini.identify", "gemini.generate">>
    ELSE IF op = "regenerate_recipes" THEN <<"gemini.generate">>
    ELSE IF op = "cooking_assistant" THEN <<"gemini.chat">>
    ELSE IF op = "text_to_speech" THEN <<"elevenlabs.text-to-speech">>
    ELSE IF op = "speech_to_text" THEN <<"speech.recognize">>
    ELSE <<>>

\* the place of a provider in the order of an operation's calls, 0 if none
PlaceOf(op, api) ==
    IF \E n \in DOMAIN ProvidersOf(op) : ProvidersOf(op)[n] = api
    THEN CHOOSE n \in DOMAIN ProvidersOf(op) : ProvidersOf(op)[n] = api
    ELSE 0

\* C11: a request calls only the providers of its operation, each once at
\* most whatever the outcome of a call, and in their order; in the
\* image-to-recipes flow the prompt of the generation call is built from the
\* ingredients the identification ended with.
C11_SingleAttempt ==
    /\ \A i \in DOMAIN calls : PlaceOf(req.op, calls[i].api) > 0
    /\ \A i, j \in DOMAIN calls :
           i < j => PlaceOf(req.op, calls[i].api) < PlaceOf(req.op, calls[j].api)
    /\ (req.op \in ImageRecipeOps /\ HasCall("gemini.generate")) =>
           /\ calls[Len(calls)].prompt =
                  RecipePrompt(resp.body.identifiedIngredients, <<>>)
           /\ HasCall("gemini.identify") =>
                  resp.body.identifiedIngredients =
                      IdentifyFromReply(calls[1].outcome).val.ingredients

C11_Witness ==
    /\ req.op \in ImageRecipeOps
    /\ Len(calls) = 2
    /\ calls[1].outcome.kind = "raise"
    /\ calls[2].outcome.kind = "raise"
    /\ resp.status = 200

\* C12: a successful answer of a recipe endpoint has the two fields recipes
\* and identifiedIngredients, and identifiedIngredients is the list handed to
\* recipe generation: the request's list on regenerate-recipes, the list the
\* prompt was built from on the image endpoints.
C12_RecipeEnvelope ==
    resp.kind \in {"recipes", "regenerated"} =>
        /\ DOMAIN resp.body = {"recipes", "identifiedIngredients"}
        /\ IF req.op = "regenerate_recipes"
           THEN resp.body.identifiedIngredients = req.ingredients
           ELSE calls[Len(calls)].prompt =
                    RecipePrompt(resp.body.identifiedIngredients, <<>>)

\* C13: with an empty GOOGLE_API_KEY the process never serves, whichever script
\* started it, and no step changes the settings.
C13_StartupFatal ==
    /\ [](settings.GOOGLE_API_KEY = "" => process # "serving")
    /\ [][settings' = settings]_vars

\* the multipart and the JSON operations that take an image
MultipartOps == {"identify_ingredients", "generate_recipes"}
JsonImageOps == {"identify_ingredients_json", "generate_recipes_json"}

\* the handler met an exception that is no HTTPException: the image cannot be
\* opened, the chat prompt cannot be built, or the connection to the speech
\* provider failed
UnexpectedError ==
    \/ /\ req.op \in MultipartOps
       /\ IsImageContentType(req.content_type)
       /\ ~ImageOpen(req.image).ok
    \/ /\ req.op \in JsonImageOps
       /\ req.image # <<>>
       /\ b64decode(req.image).ok
       /\ ~ImageOpen(b64decode(req.image).val).ok
    \/ /\ req.op = "cooking_assistant"
       /\ Truthy(req.recipe)
       /\ req.user_message # <<>>
       /\ PromptRaises(req.recipe, req.conversation_history)
    \/ /\ req.op = "text_to_speech"
       /\ calls # <<>>
       /\ calls[1].outcome.kind = "neterror"

\* the handler raised its input error
InputRejected ==
    \/ req.op \in MultipartOps /\ ~IsImageContentType(req.content_type)
    \/ req.op \in JsonImageOps /\ (req.image = <<>> \/ ~b64decode(req.image).ok)
    \/ req.op = "regenerate_recipes" /\ req.ingredients = <<>>
    \/ req.op = "cooking_assistant"
       /\ (~Truthy(req.recipe) \/ req.user_message = <<>>)
    \/ req.op = "text_to_speech" /\ req.text = <<>>
    \/ req.op = "speech_to_text" /\ req.audio = <<>>

GenericError ==
    /\ resp.kind = "error"
    /\ resp.detail # <<>>
    /\ resp.detail[1] = "Internal server error: "

\* C14: a request whose handler met an exception other than an HTTPException
\* is answered 500 with "Internal server error: " and the exception's message;
\* no other request is answered so: an input error is a 400, a missing speech
\* key a 500 with its own detail, a provider rejection the provider's status.
C14_CatchAllAtBoundary ==
    /\ UnexpectedError <=> GenericError
    /\ GenericError =>
           /\ resp.status = 500
           /\ Len(resp.detail) = 2
           /\ resp.detail[2] # ""
    /\ InputRejected => resp.status = 400
    /\ (/\ req.op = "text_to_speech"
        /\ req.text # <<>>
        /\ settings.ELEVENLABS_API_KEY = "") =>
           /\ resp.status = 500
           /\ resp.detail = <<"ElevenLabs API key not configured">>
    /\ (/\ req.op = "text_to_speech"
        /\ calls # <<>>
        /\ calls[1].outcome.kind = "http"
        /\ calls[1].outcome.status # 200) =>
           resp.status = calls[1].outcome.status

C14_Witness ==
    /\ UnexpectedError
    /\ req.op = "cooking_assistant"
    /\ resp.status = 500
    /\ resp.detail[1] = "Internal server error: "

\* C15: the confidence of a returned identification lies between 0 and 1
\* (0 and 10 tenths), whatever the provider replied.
C15_ConfidenceInUnitInterval ==
    resp.kind = "identification" =>
        resp.body.confidence >= 0 /\ resp.body.confidence <= 10

\* the outcome of the request's call to a provider; when the request made no
\* such call the outcome was never looked at, and any one stands for it
OutcomeOf(api) ==
    IF HasCall(api)
    THEN calls[CHOOSE i \in DOMAIN calls : calls[i].api = api].outcome
    ELSE Raise

\* the prompt of a recipe generation call holds the exclusion block
HasExclusionBlock(prompt) ==
    \E k \in DOMAIN prompt :
        prompt[k] = "IMPORTANT: Do NOT generate any of these recipes (or similar variations):"

=============================================================================
